---------------------------- MODULE Spec2Model ----------------------------
(***************************************************************************)
(* School Management API (src/app.js): an express application over one     *)
(* MySQL table `schools`.  POST /addSchool validates and inserts a school, *)
(* GET /listSchools returns every school with its Haversine distance to a  *)
(* query point, closest first.  On boot the process tests the connection,  *)
(* creates the table and seeds five sample schools into an empty table.    *)
(*                                                                         *)
(* Numbers.  Coordinates are fixed-point integers in units of 1e-4 degree  *)
(* (47.6062 is 476062); a great-circle distance is an integer in units of  *)
(* 1e-4 km and a rounded distance an integer in units of 0.01 km.  The     *)
(* JavaScript value NaN is the reserved integer NaN, and every comparison  *)
(* involving it is written out the way IEEE-754 decides it (false).        *)
(*                                                                         *)
(* Text.  A string is a sequence of atoms; an atom is one character, or an *)
(* opaque run of non-blank characters (used for the sample data's names).  *)
(* The blank character is " ".                                             *)
(***************************************************************************)
EXTENDS Integers, Sequences, FiniteSets, TLC

VARIABLES
    tableExists,   \* the table `schools` exists in the database
    store,         \* rows of `schools`, in primary-key order
    nextId,        \* AUTO_INCREMENT counter of `schools`.id
    pc,            \* where the server process is in startServer()
    rowsCount,     \* rows[0].count as read by initializeDatabase (-1: not read)
    boots,         \* how many times the process has been started
    issued,        \* the schoolId of every 201 response sent so far
    req,           \* the request handled last (input, parsed data, store fault)
    resp,          \* the response sent for it
    step,          \* name of the operation that ran last
    vdata,         \* argument of a direct validateSchoolData call
    verrs          \* its result (<<"pending">> before the call)

vars == <<tableExists, store, nextId, pc, rowsCount, boots, issued, req, resp,
          step, vdata, verrs>>

---------------------------------------------------------------------------
(* Bounds of the model. *)
MaxAdds  == 1      \* rows inserted through POST /addSchool
MaxBoots == 2      \* starts of the server process

---------------------------------------------------------------------------
(* JavaScript values. *)

NaN == 999999999

IsNaN(x) == x = NaN

Undefined == [t |-> "undefined", n |-> 0, s |-> <<>>]
Null      == [t |-> "null",      n |-> 0, s |-> <<>>]
Num(x)    == [t |-> "number",    n |-> x, s |-> <<>>]
Str(cs)   == [t |-> "string",    n |-> 0, s |-> cs]

Digits == <<"0", "1", "2", "3", "4", "5", "6", "7", "8", "9">>

IsDigit(c) == \E d \in 1..10 : Digits[d] = c

DigitVal(c) == (CHOOSE d \in 1..10 : Digits[d] = c) - 1

Pow10(k) == IF k = 0 THEN 1 ELSE IF k = 1 THEN 10 ELSE IF k = 2 THEN 100
            ELSE IF k = 3 THEN 1000 ELSE 10000

\* index of the first non-blank atom of cs at or after i (Len(cs)+1 if none)
RECURSIVE SkipBlanks(_, _)
SkipBlanks(cs, i) ==
    IF i <= Len(cs) /\ cs[i] = " " THEN SkipBlanks(cs, i + 1) ELSE i

\* index just after the run of digits of cs that starts at i
RECURSIVE DigitsEnd(_, _)
DigitsEnd(cs, i) ==
    IF i <= Len(cs) /\ IsDigit(cs[i]) THEN DigitsEnd(cs, i + 1) ELSE i

\* value of the digits cs[i..j-1] read as an integer
RECURSIVE DigitsValue(_, _, _)
DigitsValue(cs, i, j) ==
    IF i >= j THEN 0
    ELSE DigitsValue(cs, i, j - 1) * 10 + DigitVal(cs[j - 1])

\* value, in units of 1e-4, of the fraction digits cs[i..j-1] (at most four)
RECURSIVE FractionValue(_, _, _, _)
FractionValue(cs, i, j, k) ==
    IF i >= j \/ k > 4 THEN 0
    ELSE DigitVal(cs[i]) * Pow10(4 - k) + FractionValue(cs, i + 1, j, k + 1)

\* parseFloat of a string: leading blanks, an optional sign, the longest
\* prefix that is a decimal literal; NaN when that prefix has no digit.
ParseFloatStr(cs) ==
    LET b    == SkipBlanks(cs, 1)
        neg  == b <= Len(cs) /\ cs[b] = "-"
        sgn  == b <= Len(cs) /\ (cs[b] = "-" \/ cs[b] = "+")
        i0   == IF sgn THEN b + 1 ELSE b
        i1   == DigitsEnd(cs, i0)
        dot  == i1 <= Len(cs) /\ cs[i1] = "."
        f0   == IF dot THEN i1 + 1 ELSE i1
        f1   == IF dot THEN DigitsEnd(cs, f0) ELSE f0
        mag  == DigitsValue(cs, i0, i1) * 10000 + FractionValue(cs, f0, f1, 1)
    IN  IF i1 = i0 /\ f1 = f0 THEN NaN
        ELSE IF neg THEN 0 - mag ELSE mag

\* parseFloat(v): ToString(v), then the string is parsed.  The string of a
\* number parses back to that number; "undefined" and "null" have no digit.
parseFloat(v) ==
    IF v.t = "number" THEN v.n
    ELSE IF v.t = "string" THEN ParseFloatStr(v.s)
    ELSE NaN

\* ToBoolean(v) is false
Falsy(v) ==
    \/ v.t = "undefined"
    \/ v.t = "null"
    \/ v.t = "string" /\ v.s = <<>>
    \/ v.t = "number" /\ (v.n = 0 \/ IsNaN(v.n))

\* String.prototype.trim: drop the blanks at both ends
RECURSIVE TrimEnd(_)
TrimEnd(cs) ==
    IF cs # <<>> /\ cs[Len(cs)] = " " THEN TrimEnd(SubSeq(cs, 1, Len(cs) - 1))
    ELSE cs

trim(cs) == LET b == SkipBlanks(cs, 1) IN TrimEnd(SubSeq(cs, b, Len(cs)))

---------------------------------------------------------------------------
(* validateSchoolData *)

NameError ==
    "Name is required and must be a non-empty string"
AddressError ==
    "Address is required and must be a non-empty string"
LatitudeNumberError ==
    "Latitude is required and must be a valid number"
LatitudeRangeError ==
    "Latitude must be between -90 and 90 degrees"
LongitudeNumberError ==
    "Longitude is required and must be a valid number"
LongitudeRangeError ==
    "Longitude must be between -180 and 180 degrees"

MaxLatitude  == 900000
MaxLongitude == 1800000

\* a variant that returns at the first violated rule
validateSchoolDataFirstOnly(data) ==
    IF Falsy(data.name) \/ data.name.t # "string" \/ trim(data.name.s) = <<>>
    THEN <<NameError>>
    ELSE IF Falsy(data.address) \/ data.address.t # "string"
            \/ trim(data.address.s) = <<>>
    THEN <<AddressError>>
    ELSE IF data.latitude.t = "undefined" \/ IsNaN(parseFloat(data.latitude))
    THEN <<LatitudeNumberError>>
    ELSE IF parseFloat(data.latitude) < 0 - MaxLatitude
            \/ parseFloat(data.latitude) > MaxLatitude
    THEN <<LatitudeRangeError>>
    ELSE IF data.longitude.t = "undefined" \/ IsNaN(parseFloat(data.longitude))
    THEN <<LongitudeNumberError>>
    ELSE IF parseFloat(data.longitude) < 0 - MaxLongitude
            \/ parseFloat(data.longitude) > MaxLongitude
    THEN <<LongitudeRangeError>>
    ELSE <<>>

validateSchoolData(data) ==
    LET e1 == IF Falsy(data.name) \/ data.name.t # "string"
                 \/ trim(data.name.s) = <<>>
              THEN <<NameError>> ELSE <<>>
        e2 == IF Falsy(data.address) \/ data.address.t # "string"
                 \/ trim(data.address.s) = <<>>
              THEN <<AddressError>> ELSE <<>>
        e3 == IF data.latitude.t = "undefined"
                 \/ IsNaN(parseFloat(data.latitude))
              THEN <<LatitudeNumberError>>
              ELSE LET lat == parseFloat(data.latitude)
                   IN  IF lat < 0 - MaxLatitude \/ lat > MaxLatitude
                       THEN <<LatitudeRangeError>> ELSE <<>>
        e4 == IF data.longitude.t = "undefined"
                 \/ IsNaN(parseFloat(data.longitude))
              THEN <<LongitudeNumberError>>
              ELSE LET lon == parseFloat(data.longitude)
                   IN  IF lon < 0 - MaxLongitude \/ lon > MaxLongitude
                       THEN <<LongitudeRangeError>> ELSE <<>>
    IN  e1 \o e2 \o e3 \o e4

---------------------------------------------------------------------------
(* The table `schools`. *)

Abs(x) == IF x < 0 THEN 0 - x ELSE x

\* A FLOAT column read back through the text protocol: the value is kept
\* in single precision and printed with six significant digits.  For the
\* coordinates of the model (below 1000 degrees, four decimals) six digits
\* keep every value below 100 degrees and drop the fourth decimal of the
\* others; when the dropped digit is 5 the single-precision value decides,
\* and both neighbours are possible.
FloatColumn(x) ==
    IF Abs(x) < 1000000 THEN {x}
    ELSE LET q    == Abs(x) \div 10
             r    == Abs(x) % 10
             sg   == IF x < 0 THEN 0 - 1 ELSE 1
             down == sg * q * 10
             up   == sg * (q + 1) * 10
         IN  IF r < 5 THEN {down} ELSE IF r > 5 THEN {up} ELSE {down, up}

\* A row of `schools`.  The columns are id, name, address, latitude and
\* longitude (created_at is left out: nothing reads it); `sample` (the row
\* came from the sample data) and `given` (the coordinates handed to the
\* INSERT) are kept beside them for the record.
Row(id, name, address, latitude, longitude, sample, given) ==
    [id |-> id, name |-> name, address |-> address,
     latitude |-> latitude, longitude |-> longitude,
     sample |-> sample, given |-> given]

\* the VALUES list of the seeding INSERT
SampleData == <<
    [name |-> <<"Washington", " ", "High", " ", "School">>,
     address |-> <<"1234 Washington St, Seattle, WA">>,
     latitude |-> 476062, longitude |-> 0 - 1223321],
    [name |-> <<"Lincoln", " ", "Elementary">>,
     address |-> <<"5678 Lincoln Ave, Portland, OR">>,
     latitude |-> 455152, longitude |-> 0 - 1226784],
    [name |-> <<"Jefferson", " ", "Middle", " ", "School">>,
     address |-> <<"9012 Jefferson Blvd, San Francisco, CA">>,
     latitude |-> 377749, longitude |-> 0 - 1224194],
    [name |-> <<"Roosevelt", " ", "Academy">>,
     address |-> <<"3456 Roosevelt Way, Los Angeles, CA">>,
     latitude |-> 340522, longitude |-> 0 - 1182437],
    [name |-> <<"Kennedy", " ", "High">>,
     address |-> <<"7890 Kennedy Rd, San Diego, CA">>,
     latitude |-> 327157, longitude |-> 0 - 1171611] >>

NumSamples == Len(SampleData)

\* the rows the seeding INSERT adds when the counter stands at id0 (none of
\* the sample coordinates is a tie of FloatColumn)
SampleRows(id0) ==
    [i \in 1..NumSamples |->
        Row(id0 + i - 1, SampleData[i].name, SampleData[i].address,
            CHOOSE v \in FloatColumn(SampleData[i].latitude) : TRUE,
            CHOOSE v \in FloatColumn(SampleData[i].longitude) : TRUE,
            TRUE, <<SampleData[i].latitude, SampleData[i].longitude>>)]

\* an insert that gives every row the same id
InsertRowSameId(st, id, name, address, latitude, longitude) ==
    {Append(st, Row(1, name, address, lat, lon, FALSE,
                    <<latitude, longitude>>)) :
        lat \in FloatColumn(latitude), lon \in FloatColumn(longitude)}

\* an insert that replaces the rows of the table
InsertRowReplace(st, id, name, address, latitude, longitude) ==
    {<<Row(id, name, address, lat, lon, FALSE, <<latitude, longitude>>)>> :
        lat \in FloatColumn(latitude), lon \in FloatColumn(longitude)}

\* INSERT INTO schools (name, address, latitude, longitude) VALUES (?,?,?,?):
\* the tables the statement may leave
InsertRow(st, id, name, address, latitude, longitude) ==
    {Append(st, Row(id, name, address, lat, lon, FALSE,
                    <<latitude, longitude>>)) :
        lat \in FloatColumn(latitude), lon \in FloatColumn(longitude)}

---------------------------------------------------------------------------
(* calculateDistance *)

\* calculateDistance(lat1, lon1, lat2, lon2) in units of 1e-4 km, rounded
\* down, evaluated in IEEE-754 double arithmetic exactly as the function is
\* written, for every query point of ListQueries against every coordinate
\* pair the table can hold.  The entry NaN is the case a > 1: Math.sqrt(1-a)
\* is NaN, and so are Math.atan2 of it and R * c.
DistanceTable ==
  <<358014, -1789730, 476062, -1223320>> :> 47686620 @@
  <<358014, -1789730, 455152, -1226780>> :> 47686616 @@
  <<358014, -1789730, 377749, -1224190>> :> 49625962 @@
  <<358014, -1789730, 340522, -1182440>> :> 54480865 @@
  <<358014, -1789730, 327157, -1171610>> :> 55953241 @@
  <<358014, -1789730, -358014, 10270>> :> NaN @@
  <<358014, -1789730, 100000, 100000>> :> 148359044 @@
  <<476062, -1223321, 476062, -1223320>> :> 74 @@
  <<476062, -1223321, 455152, -1226780>> :> 2340070 @@
  <<476062, -1223321, 377749, -1224190>> :> 10932135 @@
  <<476062, -1223321, 340522, -1182440>> :> 15453001 @@
  <<476062, -1223321, 327157, -1171610>> :> 17120535 @@
  <<476062, -1223321, -358014, 10270>> :> 152464322 @@
  <<476062, -1223321, 100000, 100000>> :> 120753535 @@
  <<100000, 100000, 476062, -1223320>> :> 120753477 @@
  <<100000, 100000, 455152, -1226780>> :> 122441850 @@
  <<100000, 100000, 377749, -1224190>> :> 127599542 @@
  <<100000, 100000, 340522, -1182440>> :> 126839381 @@
  <<100000, 100000, 327157, -1171610>> :> 126756725 @@
  <<100000, 100000, -358014, 10270>> :> 51791823 @@
  <<100000, 100000, 100000, 100000>> :> 0

calculateDistance(lat1, lon1, lat2, lon2) ==
    DistanceTable[<<lat1, lon1, lat2, lon2>>]

\* parseFloat(distance.toFixed(2)), in units of 0.01 km
RoundedDistance(d) == IF IsNaN(d) THEN NaN ELSE (d + 50) \div 100

---------------------------------------------------------------------------
(* Array.prototype.sort with (a, b) => a.distance - b.distance *)

\* the comparator: a.distance - b.distance, and SortCompare reads NaN as +0
Compare(a, b) ==
    IF IsNaN(a.distance) \/ IsNaN(b.distance) THEN 0
    ELSE a.distance - b.distance

\* the comparator orders the elements consistently unless a NaN (equal to
\* everything) sits beside two distances that differ
ConsistentComparator(xs) ==
    ~ (/\ \E i \in 1..Len(xs) : IsNaN(xs[i].distance)
       /\ \E i, j \in 1..Len(xs) :
             /\ ~ IsNaN(xs[i].distance)
             /\ ~ IsNaN(xs[j].distance)
             /\ xs[i].distance # xs[j].distance)

\* x put after the last element of the sorted xs that is not greater
RECURSIVE InsertSorted(_, _)
InsertSorted(xs, x) ==
    IF xs = <<>> THEN <<x>>
    ELSE IF Compare(x, xs[Len(xs)]) >= 0 THEN Append(xs, x)
    ELSE Append(InsertSorted(SubSeq(xs, 1, Len(xs) - 1), x), xs[Len(xs)])

RECURSIVE StableSort(_)
StableSort(xs) ==
    IF xs = <<>> THEN <<>>
    ELSE InsertSorted(StableSort(SubSeq(xs, 1, Len(xs) - 1)), xs[Len(xs)])

RECURSIVE Orderings(_)
Orderings(S) ==
    IF S = {} THEN {<<>>}
    ELSE UNION {{<<x>> \o p : p \in Orderings(S \ {x})} : x \in S}

Arrangements(xs) ==
    {[i \in 1..Len(xs) |-> xs[p[i]]] : p \in Orderings(1..Len(xs))}

\* a sort that leaves the array as it is
SortResultsUnsorted(xs) == {xs}

\* The results sort may leave in the array: the stable ascending order when
\* the comparator is consistent; otherwise the order is implementation-
\* defined, and any arrangement of the elements may come out.
SortResults(xs) ==
    IF ConsistentComparator(xs) THEN {StableSort(xs)} ELSE Arrangements(xs)

---------------------------------------------------------------------------
(* Faults of the database. *)

\* A connection is given or refused.  A statement that writes either runs, or
\* the connection is refused before it runs, or the connection is lost after
\* it ran and before its result arrived; for a statement that only reads the
\* two failures are one.
ConnectFaults == {"none", "ECONNREFUSED"}
ReadFaults    == {"none", "ECONNREFUSED"}
WriteFaults   == {"none", "ECONNREFUSED", "PROTOCOL_CONNECTION_LOST"}

\* the error a statement on `schools` raises, "none" when it raises none
QueryError(fault) ==
    IF fault = "ECONNREFUSED" THEN fault
    ELSE IF ~ tableExists THEN "ER_NO_SUCH_TABLE"
    ELSE fault

\* the statement took effect in the database
Executed(fault) == tableExists /\ fault # "ECONNREFUSED"

---------------------------------------------------------------------------
(* Responses. *)

Response(status, body) == [status |-> status, body |-> body]

NoRequest  == [op |-> "none", name |-> Undefined, address |-> Undefined,
               latitude |-> Undefined, longitude |-> Undefined,
               fault |-> "none", rows |-> <<>>]
NoResponse == Response(0, [success |-> FALSE])

\* a catch block that reports the error it caught
AddSchoolCatchLeaky(error) ==
    Response(500, [success |-> FALSE,
                   message |-> "An error occurred while adding the school",
                   error   |-> error])

AddSchoolCatch(error) ==
    Response(500, [success |-> FALSE,
                   message |-> "An error occurred while adding the school"])

ListSchoolsCatch(error) ==
    Response(500, [success |-> FALSE,
                   message |-> "An error occurred while retrieving schools"])

InvalidCoordinates ==
    Response(400, [success |-> FALSE,
                   message |-> "Invalid coordinates provided. Latitude must be between -90 and 90, longitude between -180 and 180"])

\* a listing that answers 404 when there is no school
ListSchoolsOkNotEmpty(schoolsWithDistance) ==
    IF schoolsWithDistance = <<>>
    THEN Response(404, [success |-> FALSE, message |-> "No schools found"])
    ELSE Response(200, [success |-> TRUE,
                        count   |-> Len(schoolsWithDistance),
                        schools |-> schoolsWithDistance])

ListSchoolsOk(schoolsWithDistance) ==
    Response(200, [success |-> TRUE,
                   count   |-> Len(schoolsWithDistance),
                   schools |-> schoolsWithDistance])

---------------------------------------------------------------------------
(* POST /addSchool *)

\* rows that came in through POST /addSchool
Adds(st) == Cardinality({i \in 1..Len(st) : ~ st[i].sample})

\* the handler's schoolData object
SchoolData(body) ==
    [name      |-> body.name,
     address   |-> body.address,
     latitude  |-> Num(parseFloat(body.latitude)),
     longitude |-> Num(parseFloat(body.longitude))]

\* a check that lets a single error through
RejectedOffByOne(validationErrors) == Len(validationErrors) > 1

Rejected(validationErrors) == Len(validationErrors) > 0

addSchool(body, fault) ==
    LET schoolData       == SchoolData(body)
        validationErrors == validateSchoolData(schoolData)
        rejected         == Rejected(validationErrors)
        error            == QueryError(fault)
    IN  /\ pc # "exited"
        /\ step' = "addSchool"
        /\ req' = [op |-> "addSchool", name |-> body.name,
                   address |-> body.address, latitude |-> body.latitude,
                   longitude |-> body.longitude,
                   fault |-> IF rejected THEN "none" ELSE error,
                   rows |-> <<>>]
        /\ IF rejected
           THEN /\ resp' = Response(400, [success |-> FALSE,
                                          errors  |-> validationErrors])
                /\ UNCHANGED <<store, nextId, issued>>
           ELSE IF ~ Executed(fault)
           THEN /\ resp' = AddSchoolCatch(error)
                /\ UNCHANGED <<store, nextId, issued>>
           ELSE /\ Adds(store) < MaxAdds
                /\ store' \in InsertRow(store, nextId, schoolData.name.s,
                                        schoolData.address.s,
                                        schoolData.latitude.n,
                                        schoolData.longitude.n)
                /\ nextId' = nextId + 1
                /\ IF error = "none"
                   THEN /\ resp' = Response(201,
                                  [success  |-> TRUE,
                                   message  |-> "School added successfully",
                                   schoolId |-> nextId])
                        /\ issued' = issued \cup {nextId}
                   ELSE /\ resp' = AddSchoolCatch(error)
                        /\ UNCHANGED issued
        /\ UNCHANGED <<tableExists, pc, rowsCount, boots, vdata, verrs>>

---------------------------------------------------------------------------
(* GET /listSchools *)

\* the coordinate check of the listing handler
InvalidQuery(userLatitude, userLongitude) ==
    \/ IsNaN(userLatitude)
    \/ IsNaN(userLongitude)
    \/ (~ IsNaN(userLatitude) /\ userLatitude < 0 - MaxLatitude)
    \/ (~ IsNaN(userLatitude) /\ userLatitude > MaxLatitude)
    \/ (~ IsNaN(userLongitude) /\ userLongitude < 0 - MaxLongitude)
    \/ (~ IsNaN(userLongitude) /\ userLongitude > MaxLongitude)

\* schools.map(...): every column of the row, and the rounded distance
WithDistance(userLatitude, userLongitude, schools) ==
    [i \in 1..Len(schools) |->
        [id        |-> schools[i].id,
         name      |-> schools[i].name,
         address   |-> schools[i].address,
         latitude  |-> schools[i].latitude,
         longitude |-> schools[i].longitude,
         distance  |-> RoundedDistance(
                          calculateDistance(userLatitude, userLongitude,
                                            schools[i].latitude,
                                            schools[i].longitude))]]

listSchools(query, fault) ==
    LET userLatitude  == parseFloat(query.latitude)
        userLongitude == parseFloat(query.longitude)
        error         == QueryError(fault)
        invalid       == InvalidQuery(userLatitude, userLongitude)
    IN  /\ pc # "exited"
        /\ step' = "listSchools"
        /\ req' = [op |-> "listSchools", name |-> Undefined,
                   address |-> Undefined, latitude |-> query.latitude,
                   longitude |-> query.longitude,
                   fault |-> IF invalid THEN "none" ELSE error,
                   rows |-> IF invalid \/ error # "none" THEN <<>> ELSE store]
        /\ IF invalid
           THEN resp' = InvalidCoordinates
           ELSE IF error # "none"
           THEN resp' = ListSchoolsCatch(error)
           ELSE \E sorted \in SortResults(
                                 WithDistance(userLatitude, userLongitude,
                                              store)) :
                    resp' = ListSchoolsOk(sorted)
        /\ UNCHANGED <<tableExists, store, nextId, pc, rowsCount, boots, issued,
                       vdata, verrs>>

---------------------------------------------------------------------------
(* startServer: testDBConnection, initializeDatabase, app.listen *)

\* pool.getConnection() of testDBConnection
testDBConnection(fault) ==
    /\ pc = "testDB"
    /\ step' = "testDBConnection"
    /\ pc' = IF fault = "none" THEN "initConnect" ELSE "exited"
    /\ UNCHANGED <<tableExists, store, nextId, rowsCount, boots, issued, req,
                   resp, vdata, verrs>>

\* pool.getConnection() of initializeDatabase
initGetConnection(fault) ==
    /\ pc = "initConnect"
    /\ step' = "initGetConnection"
    /\ pc' = IF fault = "none" THEN "initCreate" ELSE "exited"
    /\ UNCHANGED <<tableExists, store, nextId, rowsCount, boots, issued, req,
                   resp, vdata, verrs>>

\* CREATE TABLE IF NOT EXISTS schools
initCreateTable(fault) ==
    /\ pc = "initCreate"
    /\ step' = "initCreateTable"
    /\ tableExists' = (tableExists \/ fault # "ECONNREFUSED")
    /\ pc' = IF fault = "none" THEN "initCount" ELSE "exited"
    /\ UNCHANGED <<store, nextId, rowsCount, boots, issued, req, resp, vdata,
                   verrs>>

\* a check that always asks for the sample data
SampleDataNeededAlways(count) == TRUE

\* rows[0].count === 0
SampleDataNeeded(count) == count = 0

\* SELECT COUNT(*) as count FROM schools, and the test of its result
initCountRows(fault) ==
    /\ pc = "initCount"
    /\ step' = "initCountRows"
    /\ IF fault = "none"
       THEN /\ rowsCount' = Len(store)
            /\ pc' = IF SampleDataNeeded(Len(store)) THEN "initInsert"
                     ELSE "listening"
       ELSE /\ pc' = "exited"
            /\ UNCHANGED rowsCount
    /\ UNCHANGED <<tableExists, store, nextId, boots, issued, req, resp, vdata,
                   verrs>>

\* INSERT INTO schools (name, address, latitude, longitude) VALUES (five rows)
initInsertSamples(fault) ==
    /\ pc = "initInsert"
    /\ step' = "initInsertSamples"
    /\ IF fault = "ECONNREFUSED"
       THEN UNCHANGED <<store, nextId>>
       ELSE /\ store' = store \o SampleRows(nextId)
            /\ nextId' = nextId + NumSamples
    /\ pc' = IF fault = "none" THEN "listening" ELSE "exited"
    /\ UNCHANGED <<tableExists, rowsCount, boots, issued, req, resp, vdata,
                   verrs>>

\* the process is started again after it exited or was stopped
startServer ==
    /\ pc \in {"listening", "exited"}
    /\ boots < MaxBoots
    /\ step' = "startServer"
    /\ pc' = "testDB"
    /\ boots' = boots + 1
    /\ rowsCount' = 0 - 1
    /\ UNCHANGED <<tableExists, store, nextId, issued, req, resp, vdata, verrs>>

---------------------------------------------------------------------------
(* Inputs. *)

Name1    == Str(<<"A">>)
Address1 == Str(<<"1", " ", "S", "t">>)

Body(name, address, latitude, longitude) ==
    [name |-> name, address |-> address,
     latitude |-> latitude, longitude |-> longitude]

\* request bodies with every field valid
ValidBodies == {
    Body(Name1, Address1, Num(476062), Num(0 - 1223321)),
    Body(Name1, Address1, Str(<<"1", "0">>), Str(<<"1", "0">>)) }

\* request bodies with one field or more invalid
InvalidBodies == {
    Body(Name1, Address1, Num(910000), Num(100000)),
    Body(Name1, Address1, Str(<<"a", "b", "c">>), Num(100000)),
    Body(Name1, Address1, Num(100000), Num(1810000)),
    Body(Undefined, Address1, Num(100000), Num(100000)),
    Body(Name1, Str(<<" ">>), Num(476062), Num(0 - 1223321)),
    Body(Num(5), Undefined, Num(910000), Str(<<"-">>)) }

\* a school at (-35.8014, 1.027)
AntipodalBody == Body(Name1, Address1, Num(0 - 358014), Num(10270))

AddBodies == ValidBodies \cup InvalidBodies

\* req.query of a listing: strings, or nothing
ListQueries ==
    {[latitude |-> c[1], longitude |-> c[2]] : c \in {
        <<Str(<<"4", "7", ".", "6", "0", "6", "2">>),
          Str(<<"-", "1", "2", "2", ".", "3", "3", "2", "1">>)>>,
        <<Str(<<"1", "0">>), Str(<<" ", "1", "0", ".", "0", "k", "m">>)>>,
        <<Str(<<"9", "1">>), Str(<<"1", "0">>)>>,
        <<Undefined, Str(<<"-", "1", "8", "0", ".", "5">>)>>,
        <<Str(<<"1", "0">>), Str(<<"a", "b", "c">>)>> }}

\* the query point (35.8014, -178.973), opposite on the globe to the school
\* of AntipodalBody
AntipodalQueries ==
    {[latitude  |-> Str(<<"3", "5", ".", "8", "0", "1", "4">>),
      longitude |-> Str(<<"-", "1", "7", "8", ".", "9", "7", "3">>)]}

---------------------------------------------------------------------------
(* The specification of the server. *)

\* the database before the first start: empty, or after database_setup.sql
\* (the table alone, or the table with its optional sample rows)
Init ==
    /\ \E setup \in {"none", "table", "table and rows"} :
          /\ tableExists = (setup # "none")
          /\ store = IF setup = "table and rows" THEN SampleRows(1) ELSE <<>>
          /\ nextId = IF setup = "table and rows" THEN NumSamples + 1 ELSE 1
    /\ pc = "testDB"
    /\ rowsCount = 0 - 1
    /\ boots = 1
    /\ issued = {}
    /\ req = NoRequest
    /\ resp = NoResponse
    /\ step = "init"
    /\ vdata = SchoolData([name |-> Undefined, address |-> Undefined,
                           latitude |-> Undefined, longitude |-> Undefined])
    /\ verrs = <<"pending">>

Next ==
    \/ \E body \in AddBodies, fault \in WriteFaults : addSchool(body, fault)
    \/ \E query \in ListQueries, fault \in ReadFaults :
          listSchools(query, fault)
    \/ \E fault \in ConnectFaults : testDBConnection(fault)
    \/ \E fault \in ConnectFaults : initGetConnection(fault)
    \/ \E fault \in WriteFaults : initCreateTable(fault)
    \/ \E fault \in ReadFaults : initCountRows(fault)
    \/ \E fault \in WriteFaults : initInsertSamples(fault)
    \/ startServer

Spec == Init /\ [][Next]_vars

\* the server with a database that never fails, started once, where one
\* school is registered at (-35.8014, 1.027) and the listing is asked from
\* the opposite point of the globe
NextAntipodal ==
    \/ addSchool(AntipodalBody, "none")
    \/ \E query \in AntipodalQueries : listSchools(query, "none")
    \/ testDBConnection("none")
    \/ initGetConnection("none")
    \/ initCreateTable("none")
    \/ initCountRows("none")
    \/ initInsertSamples("none")

SpecAntipodal == Init /\ [][NextAntipodal]_vars

---------------------------------------------------------------------------
(* validateSchoolData called on its own. *)

JsValues == {Undefined, Null, Num(0), Num(NaN), Num(100000), Num(900000),
             Num(0 - 900000), Num(900001), Num(1800000), Num(0 - 1800001),
             Str(<<>>), Str(<<" ">>), Str(<<" ", "A", " ">>),
             Str(<<"9", "0", ".", "0", "0", "0", "1">>),
             Str(<<"-", "4", "5", ".", "5">>), Str(<<"1", "2", "a">>)}

ValidateInputs ==
    [name : JsValues, address : {Address1, Null, Str(<<" ", " ">>)},
     latitude : JsValues, longitude : JsValues]

validateCall ==
    /\ verrs = <<"pending">>
    /\ step = "init"
    /\ step' = "validateSchoolData"
    /\ verrs' = validateSchoolData(vdata)
    /\ UNCHANGED <<tableExists, store, nextId, pc, rowsCount, boots, issued, req,
                   resp, vdata>>

InitValidate ==
    /\ tableExists = FALSE
    /\ store = <<>>
    /\ nextId = 1
    /\ pc = "testDB"
    /\ rowsCount = 0 - 1
    /\ boots = 1
    /\ issued = {}
    /\ req = NoRequest
    /\ resp = NoResponse
    /\ step = "init"
    /\ vdata \in ValidateInputs
    /\ verrs = <<"pending">>

NextValidate == validateCall

SpecValidate == InitValidate /\ [][NextValidate]_vars

---------------------------------------------------------------------------
(* Properties. *)

Range(f) == {f[i] : i \in DOMAIN f}

\* text that is a string with a non-blank atom in it
NonBlankString(v) == v.t = "string" /\ \E i \in 1..Len(v.s) : v.s[i] # " "

\* a value parseFloat turns into a number
Convertible(v) == ~ IsNaN(parseFloat(v))

InRange(v, max) ==
    Convertible(v) /\ parseFloat(v) >= 0 - max /\ parseFloat(v) <= max

\* every field of the request is valid
ValidFields(r) ==
    /\ NonBlankString(r.name)
    /\ NonBlankString(r.address)
    /\ InRange(r.latitude, MaxLatitude)
    /\ InRange(r.longitude, MaxLongitude)

\* the columns of a row
Columns(r) == <<r.id, r.name, r.address, r.latitude, r.longitude>>

\* a <= b as JavaScript decides it
Leq(a, b) == ~ IsNaN(a) /\ ~ IsNaN(b) /\ a <= b

\* position of the row with this id in the rows the listing read
PositionRead(id) == CHOOSE i \in 1..Len(req.rows) : req.rows[i].id = id

ListedOk == step = "listSchools" /\ resp.status = 200

\* C1: a registration whose input fails validation is answered 400 with the
\* list of validation errors, and the table after it is the table before it.
C1_InvalidRegistrationNoInsert ==
    [][(step' = "addSchool" /\ ~ ValidFields(req'))
        => /\ resp'.status = 400
           /\ resp'.body = [success |-> FALSE,
                            errors  |-> validateSchoolData(SchoolData(req'))]
           /\ resp'.body.errors # <<>>
           /\ (req'.latitude = Num(910000)
                 => LatitudeRangeError \in Range(resp'.body.errors))
           /\ store' = store]_vars

\* C1 happens: latitude 91 was rejected while the table held rows
C1_Witness ==
    /\ step = "addSchool"
    /\ req.latitude = Num(910000)
    /\ resp.status = 400
    /\ store # <<>>

\* C2: the schools of a listing are in non-decreasing order of distance:
\* of two neighbours the earlier one's distance is <= the later one's.
C2_ListingSortedByDistance ==
    ListedOk =>
        \A i \in 1..(Len(resp.body.schools) - 1) :
            Leq(resp.body.schools[i].distance,
                resp.body.schools[i + 1].distance)

C4_IdentifiersUnique ==
    /\ \A i, j \in 1..Len(store) : store[i].id = store[j].id => i = j
    /\ \A id \in issued :
          Cardinality({i \in 1..Len(store) : store[i].id = id}) = 1
    /\ (step = "addSchool" /\ resp.status = 201)
          => resp.body.schoolId \in issued
    /\ (step = "addSchool" /\ ValidFields(req) /\ req.fault = "none")
          => (resp.status = 201 /\ resp.body.success)

\* C4 happens: a registration returned an id while the table held others
C4_Witness ==
    /\ step = "addSchool"
    /\ resp.status = 201
    /\ resp.body.schoolId \in issued
    /\ Len(store) > NumSamples

\* C5: validateSchoolData reports every violated rule: one entry per violated
\* field, none for a field that is fine; a coordinate that is not convertible
\* gets the "valid number" message and no range message, a convertible one
\* out of range gets the range message; the list is empty exactly when all
\* four fields are valid.
C5_AllViolationsReported ==
    verrs # <<"pending">> =>
        LET violated == {f \in {"name", "address", "latitude", "longitude"} :
                            \/ f = "name" /\ ~ NonBlankString(vdata.name)
                            \/ f = "address" /\ ~ NonBlankString(vdata.address)
                            \/ f = "latitude"
                                 /\ ~ InRange(vdata.latitude, MaxLatitude)
                            \/ f = "longitude"
                                 /\ ~ InRange(vdata.longitude, MaxLongitude)}
            said == Range(verrs)
        IN  /\ Len(verrs) = Cardinality(violated)
            /\ Cardinality(said) = Len(verrs)
            /\ (NameError \in said) = ("name" \in violated)
            /\ (AddressError \in said) = ("address" \in violated)
            /\ (LatitudeNumberError \in said) = ~ Convertible(vdata.latitude)
            /\ (LatitudeRangeError \in said)
                  = (Convertible(vdata.latitude) /\ "latitude" \in violated)
            /\ (LongitudeNumberError \in said) = ~ Convertible(vdata.longitude)
            /\ (LongitudeRangeError \in said)
                  = (Convertible(vdata.longitude) /\ "longitude" \in violated)
            /\ (verrs = <<>>) = ValidFields(vdata)

\* C5 happens: all four rules were violated at once, one coordinate not
\* convertible and the other out of range
C5_Witness ==
    /\ Len(verrs) = 4
    /\ LatitudeNumberError \in Range(verrs)
    /\ LongitudeRangeError \in Range(verrs)

\* C6: a listing with valid coordinates that reads an empty table is
\* answered 200 with count 0 and no school.
C6_EmptyListing ==
    (/\ step = "listSchools"
     /\ InRange(req.latitude, MaxLatitude)
     /\ InRange(req.longitude, MaxLongitude)
     /\ req.fault = "none"
     /\ store = <<>>)
    => resp = Response(200, [success |-> TRUE, count |-> 0, schools |-> <<>>])

\* C6 happens: the table was listed while it was empty
C6_Witness ==
    /\ step = "listSchools"
    /\ tableExists
    /\ store = <<>>
    /\ resp.status = 200
    /\ resp.body.count = 0

\* C7: when the INSERT of a registration or the SELECT of a listing raises
\* an error, the response is 500 and its body is the fixed message of the
\* route and nothing else.
C7_StoreFaultIsOpaque ==
    (step \in {"addSchool", "listSchools"} /\ req.fault # "none")
    => /\ resp.status = 500
       /\ DOMAIN resp.body = {"success", "message"}
       /\ resp.body.success = FALSE
       /\ resp.body.message =
            IF step = "addSchool"
            THEN "An error occurred while adding the school"
            ELSE "An error occurred while retrieving schools"

\* C7 happens: the INSERT of a valid registration failed
C7_Witness ==
    /\ step = "addSchool"
    /\ ValidFields(req)
    /\ req.fault = "PROTOCOL_CONNECTION_LOST"
    /\ resp.status = 500

\* C8: every row stays in the table with the same columns; a listing leaves
\* the table as it is, and a registration adds at most one row, exactly one
\* when it is answered 201.
C8_RowsNeverChange ==
    [][/\ \A i \in 1..Len(store) :
             \E k \in 1..Len(store') : Columns(store'[k]) = Columns(store[i])
       /\ Len(store') >= Len(store)
       /\ (step' = "listSchools" => store' = store)
       /\ (step' = "addSchool" => Len(store') <= Len(store) + 1)
       /\ (step' = "addSchool" /\ resp'.status = 201
             => /\ Len(store') = Len(store) + 1
                /\ SubSeq(store', 1, Len(store)) = store)]_vars

\* C8 happens: a registration succeeded on a table that held the samples
C8_Witness ==
    /\ step = "addSchool"
    /\ resp.status = 201
    /\ Len(store) = NumSamples + 1
    /\ store[1].sample

\* C9: a school inserted with coordinates equal to the query point of a
\* listing has distance 0.00 there, and comes before every school whose
\* distance is strictly greater.
C9_RoundTripDistanceZero ==
    ListedOk =>
        \A i \in 1..Len(resp.body.schools) :
            LET row == req.rows[PositionRead(resp.body.schools[i].id)]
            IN  row.given = <<parseFloat(req.latitude),
                              parseFloat(req.longitude)>>
                => /\ resp.body.schools[i].distance = 0
                   /\ \A j \in 1..Len(resp.body.schools) :
                         (~ IsNaN(resp.body.schools[j].distance)
                          /\ resp.body.schools[j].distance
                               > resp.body.schools[i].distance) => i < j

\* the sample rows in the table
SamplesInTable == {i \in 1..Len(store) : store[i].sample}

\* C10: the sample schools are in the table at most once, and a step of
\* initializeDatabase changes the table only after its count check read 0,
\* and then by adding the sample rows.
C10_SeedingIdempotent ==
    /\ [](/\ Cardinality(SamplesInTable) <= NumSamples
          /\ \A i, j \in SamplesInTable :
                store[i].name = store[j].name => i = j)
    /\ [][(step' \in {"testDBConnection", "initGetConnection",
                      "initCreateTable", "initCountRows",
                      "initInsertSamples", "startServer"}
           /\ store' # store)
          => (rowsCount = 0 /\ store' = store \o SampleRows(nextId))]_vars

\* C10 happens: a second run of initializeDatabase counted the rows of a
\* table that held the samples and a registered school, and added nothing
C10_Witness ==
    /\ boots = 2
    /\ pc = "listening"
    /\ rowsCount = NumSamples + 1
    /\ Len(store) = NumSamples + 1
    /\ Cardinality(SamplesInTable) = NumSamples

===========================================================================
